---- MODULE Spec2Model ----
(***************************************************************************)
(* Model of validador_cartao_credito.py: the class ValidadorCartaoCredito  *)
(* (limpar_numero, validar_luhn, identificar_bandeira, validar_cartao,     *)
(* formatar_numero) and the two brand tables built by __init__.            *)
(*                                                                         *)
(* A string is a sequence of characters; a character is its code point     *)
(* (48..57 are the ASCII digits '0'..'9', 32 is ' ', 45 is '-', 97 'a').   *)
(***************************************************************************)
EXTENDS Integers, Sequences, FiniteSets, TLC

\* ------------------------------------------------------------------ bounds

\* Largest number of digits of an input drawn by Init (one above the 19 the
\* validator accepts, so that over-length inputs occur).
MaxDigitos == 20

\* ------------------------------------------------------------ characters

ASCIIDigitos == 48..57
Espaco == <<32>>
Hifen == <<45>>
LetraA == <<97>>

\* chr(ord('0') + v): the character of the decimal digit v
Chr(v) == 48 + v

\* int(d) for a one-character digit string
int(c) == c - 48

\* str.isdigit(): every character is a digit and there is at least one
isdigit(s) == Len(s) > 0 /\ \A i \in 1..Len(s) : s[i] \in ASCIIDigitos

\* The text of a sequence of digit values: Texto(<<4,1>>) is "41"
Texto(ds) == [i \in 1..Len(ds) |-> Chr(ds[i])]

\* ------------------------------------------------------- sequence helpers

\* list.reverse()
reverse(s) == [i \in 1..Len(s) |-> s[Len(s) + 1 - i]]

\* sum(list)
RECURSIVE sum(_)
sum(s) == IF s = <<>> THEN 0 ELSE s[1] + sum(Tail(s))

\* s[a:b] of Python, 0-based and end-exclusive, clipped to the string
Fatia(s, a, b) ==
    LET fim == IF b > Len(s) THEN Len(s) ELSE b
    IN  SubSeq(s, a + 1, fim)

\* ----------------------------------------------------------- limpar_numero

\* re.sub(r'[^0-9]', '', str(numero))
limpar_numero_so_separadores(numero) ==
    SelectSeq(numero, LAMBDA c : c \notin {32, 45})

limpar_numero(numero) == SelectSeq(numero, LAMBDA c : c \in ASCIIDigitos)

\* ------------------------------------------------------------ validar_luhn

\* digitos[i] *= 2; if digitos[i] > 9: digitos[i] -= 9
dobrar_sem_ajuste(d) == d * 2

dobrar(d) ==
    LET x == d * 2
    IN  IF x > 9 THEN x - 9 ELSE x

\* range(0, len(digitos), 2): the 0-based indices that are doubled
indices_dobrados_impares(n) == {i \in 0..(n - 1) : i % 2 = 1}

indices_dobrados(n) == {i \in 0..(n - 1) : i % 2 = 0}

validar_luhn(numero) ==
    LET limpo == limpar_numero(numero)
    IN  IF ~isdigit(limpo)
        THEN FALSE
        ELSE LET digitos == [i \in 1..Len(limpo) |-> int(limpo[i])]
                 check_digit == digitos[Len(digitos)]
                 restantes == reverse(SubSeq(digitos, 1, Len(digitos) - 1))
                 dobrados == [i \in 1..Len(restantes) |->
                                 IF (i - 1) \in indices_dobrados(Len(restantes))
                                 THEN dobrar(restantes[i])
                                 ELSE restantes[i]]
                 soma_total == sum(Append(dobrados, check_digit))
             IN  soma_total % 10 = 0

\* ------------------------------------------------- regular expressions
\* A pattern denotes a finite set of shapes; a shape is a sequence of character
\* classes, one per character of a string it matches.

\* literal digits, e.g. 4011
Lit(ds) == {[i \in 1..Len(ds) |-> {Chr(ds[i])}]}

\* [a-b]
Cls(a, b) == {<<{Chr(v) : v \in a..b}>>}

\* [0-9] and \d (on a cleaned string both are the ASCII digits)
Dig == {<<ASCIIDigitos>>}

\* concatenation XY
Cat(X, Y) == {x \o y : x \in X, y \in Y}

\* X{n}
RECURSIVE Rep(_, _)
Rep(X, n) == IF n = 0 THEN {<<>>} ELSE Cat(X, Rep(X, n - 1))

\* X{lo,hi}
RepEntre(X, lo, hi) == UNION {Rep(X, n) : n \in lo..hi}

\* (?:X)?
Opt(X) == X \cup {<<>>}

\* re.match of an anchored pattern ^...$ : the whole string has one of the shapes
Match(padrao, s) ==
    \E forma \in padrao :
        /\ Len(forma) = Len(s)
        /\ \A i \in 1..Len(s) : s[i] \in forma[i]

\* --------------------------------------------------------- padroes_bandeiras

\* ^4[0-9]{12}(?:[0-9]{3})?$
visa == Cat(Lit(<<4>>), Cat(Rep(Dig, 12), Opt(Rep(Dig, 3))))

\* ^5[1-5][0-9]{14}$|^2[2-7][0-9]{14}$
mastercard ==
    Cat(Lit(<<5>>), Cat(Cls(1, 5), Rep(Dig, 14)))
    \cup Cat(Lit(<<2>>), Cat(Cls(2, 7), Rep(Dig, 14)))

\* ^3[47][0-9]{13}$
amex == Cat(Lit(<<3>>), Cat(Lit(<<4>>) \cup Lit(<<7>>), Rep(Dig, 13)))

\* ^(4011(78|79)|43(1274|8935)|45(1416|7393|763[12])|50(...)|627780|
\*   63(6297|6368|6369)|65(...)|16(5[2-9]|[6-7][0-9])|50(0[0-9]|...))$
elo_50 ==
    Lit(<<4,1,7,5>>) \cup Lit(<<6,6,9,9>>)
    \cup Cat(Lit(<<6,7>>), Cat(Cls(0, 6), Cls(0, 9)))
    \cup Cat(Lit(<<6,7,7>>), Cls(0, 8))
    \cup Cat(Lit(<<9>>), Cat(Cls(0, 8), Rep(Dig, 2)))
    \cup Cat(Lit(<<9,9>>), Cat(Cls(0, 8), Cls(0, 9)))
    \cup Cat(Lit(<<9,9,9>>), Cls(0, 9))

elo_65 ==
    Cat(Lit(<<0>>),
        Cat(Lit(<<0>>), Cat(Lit(<<3>>), Cls(1, 3)) \cup Cls(5, 9))
        \cup Cat(Lit(<<4>>), Cls(0, 9))
        \cup Cat(Lit(<<5>>), Cls(0, 1)))
    \cup Cat(Lit(<<4>>),
        Cat(Lit(<<0>>), Cls(5, 9))
        \cup Cat(Cls(1, 3), Cls(0, 9))
        \cup Cat(Lit(<<8>>), Cls(5, 9))
        \cup Cat(Lit(<<9>>), Cls(0, 9)))
    \cup Cat(Lit(<<5>>),
        Cat(Cls(0, 2), Cls(0, 9))
        \cup Cat(Lit(<<3>>), Cls(0, 8))
        \cup Cat(Lit(<<4>>), Cls(1, 9))
        \cup Cat(Cls(5, 8), Cls(0, 9))
        \cup Cat(Lit(<<9>>), Cls(0, 8)))
    \cup Cat(Lit(<<7>>),
        Cat(Lit(<<0>>), Cls(0, 9))
        \cup Cat(Lit(<<1>>), Cls(0, 8))
        \cup Cat(Lit(<<2>>), Cls(0, 7)))
    \cup Cat(Lit(<<9>>),
        Cat(Lit(<<0>>), Cls(1, 9))
        \cup Cat(Cls(1, 6), Cls(0, 9))
        \cup Cat(Lit(<<7>>), Cls(0, 8)))

elo ==
    Cat(Lit(<<4,0,1,1>>), Lit(<<7,8>>) \cup Lit(<<7,9>>))
    \cup Cat(Lit(<<4,3>>), Lit(<<1,2,7,4>>) \cup Lit(<<8,9,3,5>>))
    \cup Cat(Lit(<<4,5>>), Lit(<<1,4,1,6>>) \cup Lit(<<7,3,9,3>>)
                           \cup Cat(Lit(<<7,6,3>>), Cls(1, 2)))
    \cup Cat(Lit(<<5,0>>), elo_50)
    \cup Lit(<<6,2,7,7,8,0>>)
    \cup Cat(Lit(<<6,3>>), Lit(<<6,2,9,7>>) \cup Lit(<<6,3,6,8>>) \cup Lit(<<6,3,6,9>>))
    \cup Cat(Lit(<<6,5>>), elo_65)
    \cup Cat(Lit(<<1,6>>), Cat(Lit(<<5>>), Cls(2, 9)) \cup Cat(Cls(6, 7), Cls(0, 9)))
    \cup Cat(Lit(<<5,0>>), Cat(Lit(<<0>>), Cls(0, 9))
                           \cup Cat(Lit(<<1>>), Cls(0, 9))
                           \cup Cat(Lit(<<2>>), Cls(1, 9))
                           \cup Cat(Cls(3, 4), Cls(0, 9))
                           \cup Cat(Lit(<<5>>), Cls(0, 8)))

\* ^(606282\d{10}(\d{3})?|3841\d{15})$
hipercard ==
    Cat(Lit(<<6,0,6,2,8,2>>), Cat(Rep(Dig, 10), Opt(Rep(Dig, 3))))
    \cup Cat(Lit(<<3,8,4,1>>), Rep(Dig, 15))

\* ^3(?:0[0-5]|[68][0-9])[0-9]{11}$
diners ==
    Cat(Lit(<<3>>),
        Cat(Cat(Lit(<<0>>), Cls(0, 5)) \cup Cat(Lit(<<6>>) \cup Lit(<<8>>), Cls(0, 9)),
            Rep(Dig, 11)))

\* ^6(?:011|5[0-9]{2})[0-9]{12}$
discover ==
    Cat(Lit(<<6>>),
        Cat(Lit(<<0,1,1>>) \cup Cat(Lit(<<5>>), Rep(Dig, 2)), Rep(Dig, 12)))

\* ^(?:2131|1800|35\d{3})\d{11}$
jcb ==
    Cat(Lit(<<2,1,3,1>>) \cup Lit(<<1,8,0,0>>) \cup Cat(Lit(<<3,5>>), Rep(Dig, 3)),
        Rep(Dig, 11))

\* ^5078\d{2}\d{2}\d{11}$
aura_16_digitos == Cat(Lit(<<5,0,7,8>>), Rep(Dig, 12))

aura == Cat(Lit(<<5,0,7,8>>), Cat(Rep(Dig, 2), Cat(Rep(Dig, 2), Rep(Dig, 11))))

\* ^(?:5[0678]\d\d|6304|6390|67\d\d)\d{8,15}$
maestro_5_0_a_8 ==
    Cat(Cat(Lit(<<5>>), Cat(Cls(0, 8), Rep(Dig, 2)))
        \cup Lit(<<6,3,0,4>>) \cup Lit(<<6,3,9,0>>)
        \cup Cat(Lit(<<6,7>>), Rep(Dig, 2)),
        RepEntre(Dig, 8, 15))

maestro ==
    Cat(Cat(Lit(<<5>>), Cat(Lit(<<0>>) \cup Cls(6, 8), Rep(Dig, 2)))
        \cup Lit(<<6,3,0,4>>) \cup Lit(<<6,3,9,0>>)
        \cup Cat(Lit(<<6,7>>), Rep(Dig, 2)),
        RepEntre(Dig, 8, 15))

\* self.padroes_bandeiras, in the dictionary's insertion order
padroes_bandeiras ==
    << [bandeira |-> "visa",       padrao |-> visa],
       [bandeira |-> "mastercard", padrao |-> mastercard],
       [bandeira |-> "amex",       padrao |-> amex],
       [bandeira |-> "elo",        padrao |-> elo],
       [bandeira |-> "hipercard",  padrao |-> hipercard],
       [bandeira |-> "diners",     padrao |-> diners],
       [bandeira |-> "discover",   padrao |-> discover],
       [bandeira |-> "jcb",        padrao |-> jcb],
       [bandeira |-> "aura",       padrao |-> aura],
       [bandeira |-> "maestro",    padrao |-> maestro] >>

\* self.nomes_bandeiras
nomes_bandeiras ==
    [b \in {"visa", "mastercard", "amex", "elo", "hipercard", "diners",
            "discover", "jcb", "aura", "maestro"} |->
        CASE b = "visa"       -> "Visa"
          [] b = "mastercard" -> "Mastercard"
          [] b = "amex"       -> "American Express"
          [] b = "elo"        -> "Elo"
          [] b = "hipercard"  -> "Hipercard"
          [] b = "diners"     -> "Diners Club"
          [] b = "discover"   -> "Discover"
          [] b = "jcb"        -> "JCB"
          [] b = "aura"       -> "Aura"
          [] b = "maestro"    -> "Maestro"]

\* Python's None (no brand is named so)
None == "None"

\* ----------------------------------------------------- identificar_bandeira

\* for bandeira, padrao in self.padroes_bandeiras.items():
\*     if re.match(padrao, numero): return self.nomes_bandeiras[bandeira]
\* return None
RECURSIVE primeira_bandeira(_, _)
primeira_bandeira(numero, k) ==
    IF k > Len(padroes_bandeiras)
    THEN None
    ELSE IF Match(padroes_bandeiras[k].padrao, numero)
         THEN nomes_bandeiras[padroes_bandeiras[k].bandeira]
         ELSE primeira_bandeira(numero, k + 1)

identificar_bandeira(numero) == primeira_bandeira(limpar_numero(numero), 1)

\* ---------------------------------------------------------- validar_cartao

\* resultado['valido_luhn'] and resultado['bandeira'] is not None
valido_completo_so_luhn(valido_luhn, bandeira) == valido_luhn

valido_completo(valido_luhn, bandeira) == valido_luhn /\ bandeira # None

\* The status message; an f-string is the sequence of its parts.
mensagem_status_invertida(valido_luhn, bandeira) ==
    IF valido_completo(valido_luhn, bandeira)
    THEN <<"Cartão válido - Bandeira: ", bandeira>>
    ELSE IF valido_luhn /\ bandeira = None
    THEN <<"Bandeira identificada (", bandeira,
           "), mas número inválido pelo algoritmo Luhn">>
    ELSE IF ~valido_luhn /\ bandeira # None
    THEN <<"Número válido pelo algoritmo Luhn, mas bandeira não identificada">>
    ELSE <<"Número inválido">>

mensagem_status(valido_luhn, bandeira) ==
    IF valido_completo(valido_luhn, bandeira)
    THEN <<"Cartão válido - Bandeira: ", bandeira>>
    ELSE IF valido_luhn /\ bandeira = None
    THEN <<"Número válido pelo algoritmo Luhn, mas bandeira não identificada">>
    ELSE IF ~valido_luhn /\ bandeira # None
    THEN <<"Bandeira identificada (", bandeira,
           "), mas número inválido pelo algoritmo Luhn">>
    ELSE <<"Número inválido">>

validar_cartao(numero) ==
    LET numero_limpo == limpar_numero(numero)
        resultado == [numero_original |-> numero,
                      numero_limpo    |-> numero_limpo,
                      valido_luhn     |-> FALSE,
                      bandeira        |-> None,
                      valido_completo |-> FALSE,
                      comprimento     |-> Len(numero_limpo),
                      mensagem        |-> <<"">>]
    IN  IF ~isdigit(numero_limpo)
        THEN [resultado EXCEPT !.mensagem = <<"Número contém caracteres inválidos">>]
        ELSE IF Len(numero_limpo) < 13 \/ Len(numero_limpo) > 19
        THEN [resultado EXCEPT !.mensagem =
                 <<"Comprimento inválido (deve ter entre 13 e 19 dígitos)">>]
        ELSE LET luhn == validar_luhn(numero_limpo)
                 bandeira == identificar_bandeira(numero_limpo)
             IN  [resultado EXCEPT
                     !.valido_luhn     = luhn,
                     !.bandeira        = bandeira,
                     !.valido_completo = valido_completo(luhn, bandeira),
                     !.mensagem        = mensagem_status(luhn, bandeira)]

\* --------------------------------------------------------- formatar_numero

formatar_numero_sem_comprimento(numero, bandeira) ==
    LET limpo == limpar_numero(numero)
        b == IF bandeira \in {None, ""} THEN identificar_bandeira(limpo) ELSE bandeira
    IN  IF b = "American Express"
        THEN IF Len(limpo) = 15
             THEN Fatia(limpo, 0, 4) \o Hifen \o Fatia(limpo, 4, 10) \o Hifen
                  \o Fatia(limpo, 10, Len(limpo))
             ELSE limpo
        ELSE IF b = "Diners Club"
        THEN IF Len(limpo) = 14
             THEN Fatia(limpo, 0, 4) \o Hifen \o Fatia(limpo, 4, 10) \o Hifen
                  \o Fatia(limpo, 10, Len(limpo))
             ELSE limpo
        ELSE Fatia(limpo, 0, 4) \o Hifen \o Fatia(limpo, 4, 8) \o Hifen
             \o Fatia(limpo, 8, 12) \o Hifen \o Fatia(limpo, 12, Len(limpo))

formatar_numero(numero, bandeira) ==
    LET limpo == limpar_numero(numero)
        b == IF bandeira \in {None, ""} THEN identificar_bandeira(limpo) ELSE bandeira
    IN  IF b = "American Express"
        THEN IF Len(limpo) = 15
             THEN Fatia(limpo, 0, 4) \o Hifen \o Fatia(limpo, 4, 10) \o Hifen
                  \o Fatia(limpo, 10, Len(limpo))
             ELSE limpo
        ELSE IF b = "Diners Club"
        THEN IF Len(limpo) = 14
             THEN Fatia(limpo, 0, 4) \o Hifen \o Fatia(limpo, 4, 10) \o Hifen
                  \o Fatia(limpo, 10, Len(limpo))
             ELSE limpo
        ELSE IF Len(limpo) = 16
             THEN Fatia(limpo, 0, 4) \o Hifen \o Fatia(limpo, 4, 8) \o Hifen
                  \o Fatia(limpo, 8, 12) \o Hifen \o Fatia(limpo, 12, Len(limpo))
             ELSE limpo

\* ------------------------------------------------------------------ inputs

\* Leading digits of the inputs: the prefixes the brand table names, their
\* neighbours, and prefixes no rule names.
Prefixos ==
    { <<>>, <<0>>, <<1>>, <<9>>,
      <<4>>, <<4,0,1,1,7,8>>, <<4,5,7,6,3,1>>,
      <<5,1>>, <<5,5>>, <<2,2>>, <<2,7>>, <<2,1>>, <<2,8>>,
      <<3,4>>, <<3,7>>, <<3,5>>,
      <<5,0,4,1,7,5>>, <<5,0,6,6,9,9>>, <<5,0,9,0,0,0>>, <<5,0,0,0>>,
      <<6,2,7,7,8,0>>, <<6,3,6,2,9,7>>, <<6,3,6,3,6,8>>,
      <<6,5,0,0,3,1>>, <<6,5,0,0,5>>, <<6,5,5,0>>, <<1,6,5,2>>,
      <<6,0,6,2,8,2>>, <<3,8,4,1>>,
      <<3,0,0>>, <<3,0,5>>, <<3,0,6>>, <<3,6>>, <<3,8>>,
      <<6,0,1,1>>, <<6,5>>, <<6,4>>,
      <<2,1,3,1>>, <<1,8,0,0>>,
      <<5,0,7,8>>, <<5,0,6,8>>, <<5,6>>, <<5,9>>, <<6,3,0,4>>, <<6,3,9,0>>, <<6,7>> }

\* The digit that pads a prefix up to the wanted length
Recheios == {0, 8}

\* p padded with f up to n - 1 digits, then the last digit u: n digits in all
Montar(p, n, f, u) ==
    IF n = 0
    THEN <<>>
    ELSE SubSeq(p \o [i \in 1..MaxDigitos |-> f], 1, n - 1) \o <<u>>

\* How a caller writes the digits: bare, in groups of four separated by a space
\* or a hyphen, or with letters around them.
Estilos == {"limpo", "espacos", "hifens", "letras"}

RECURSIVE Agrupar(_, _)
Agrupar(t, sep) ==
    IF Len(t) <= 4 THEN t ELSE SubSeq(t, 1, 4) \o sep \o Agrupar(SubSeq(t, 5, Len(t)), sep)

Decorar(t, estilo) ==
    CASE estilo = "limpo"   -> t
      [] estilo = "espacos" -> Agrupar(t, Espaco)
      [] estilo = "hifens"  -> Agrupar(t, Hifen)
      [] estilo = "letras"  -> LetraA \o Agrupar(t, LetraA) \o Espaco

\* numeros_teste of main()
numeros_teste ==
    { Texto(<<4,1,1,1,1,1,1,1,1,1,1,1,1,1,1,1>>),
      Texto(<<5,5,5,5,5,5,5,5,5,5,5,5,4,4,4,4>>),
      Texto(<<3,7,8,2,8,2,2,4,6,3,1,0,0,0,5>>),
      Texto(<<6,3,6,2,9,7,0,0,0,0,4,5,7,0,1,3>>),
      Texto(<<6,0,6,2,8,2,5,6,2,4,2,5,4,0,0,1>>),
      Texto(<<3,0,5,6,9,3,0,9,0,2,5,9,0,4>>),
      Texto(<<6,0,1,1,1,1,1,1,1,1,1,1,1,1,1,7>>),
      Agrupar(Texto(<<4,1,1,1,1,1,1,1,1,1,1,1,1,1,1,2>>), Espaco),
      Texto(<<1,2,3,4,5,6,7,8,9,0,1,2,3,4,5,6>>),
      Texto(<<1,2,3>>) }

Entradas ==
    { Decorar(Texto(Montar(p, n, f, u)), e) :
        p \in Prefixos, n \in 0..MaxDigitos, f \in Recheios, u \in 0..9, e \in Estilos }
    \cup numeros_teste

\* The brand a caller of formatar_numero passes (None: let it classify)
BandeirasPassadas == {None, "American Express", "Diners Club", "Visa"}

\* ------------------------------------------------------------ state machine

VARIABLES numero, chamada, bandeira_passada, retorno

vars == <<numero, chamada, bandeira_passada, retorno>>

Init ==
    /\ numero \in Entradas
    /\ chamada = "nenhuma"
    /\ bandeira_passada = None
    /\ retorno = None

LimparNumero ==
    /\ chamada = "nenhuma"
    /\ chamada' = "limpar_numero"
    /\ retorno' = limpar_numero(numero)
    /\ UNCHANGED <<numero, bandeira_passada>>

ValidarLuhn ==
    /\ chamada = "nenhuma"
    /\ chamada' = "validar_luhn"
    /\ retorno' = validar_luhn(numero)
    /\ UNCHANGED <<numero, bandeira_passada>>

IdentificarBandeira ==
    /\ chamada = "nenhuma"
    /\ chamada' = "identificar_bandeira"
    /\ retorno' = identificar_bandeira(numero)
    /\ UNCHANGED <<numero, bandeira_passada>>

ValidarCartao ==
    /\ chamada = "nenhuma"
    /\ chamada' = "validar_cartao"
    /\ retorno' = validar_cartao(numero)
    /\ UNCHANGED <<numero, bandeira_passada>>

FormatarNumero ==
    /\ chamada = "nenhuma"
    /\ \E b \in BandeirasPassadas :
        /\ bandeira_passada' = b
        /\ retorno' = formatar_numero(numero, b)
    /\ chamada' = "formatar_numero"
    /\ UNCHANGED numero

Next ==
    \/ LimparNumero
    \/ ValidarLuhn
    \/ IdentificarBandeira
    \/ ValidarCartao
    \/ FormatarNumero

Spec == Init /\ [][Next]_vars

\* ================================================================ properties

\* The digits of a raw input, in order (the DigitString of an input)
RECURSIVE SoDigitos(_)
SoDigitos(s) ==
    IF s = <<>> THEN <<>>
    ELSE IF s[1] >= 48 /\ s[1] <= 57
         THEN <<s[1]>> \o SoDigitos(Tail(s))
         ELSE SoDigitos(Tail(s))

\* The input holds a character that is not a digit
TemNaoDigito(s) == \E i \in 1..Len(s) : s[i] < 48 \/ s[i] > 57

SoTemDigitos(s) == ~TemNaoDigito(s)

\* Reference Luhn sum of a digit string: counting from the right, the digit at
\* distance j from the last one (the last one is j = 0) is doubled when
\* (j + desloca) is odd, and a doubled value counts as the sum of its digits.
RECURSIVE SomaLuhnRef(_, _, _)
SomaLuhnRef(d, j, desloca) ==
    IF j >= Len(d)
    THEN 0
    ELSE LET v == d[Len(d) - j] - 48
             w == IF (j + desloca) % 2 = 1
                  THEN ((2 * v) \div 10) + ((2 * v) % 10)
                  ELSE v
         IN  w + SomaLuhnRef(d, j + 1, desloca)

LuhnRef(d) == Len(d) > 0 /\ SomaLuhnRef(d, 0, 0) % 10 = 0

\* The check digit a Luhn generator appends to a prefix
DigitoVerificadorRef(prefixo) == (10 - (SomaLuhnRef(prefixo, 0, 1) % 10)) % 10

MsgComprimento == <<"Comprimento inválido (deve ter entre 13 e 19 dígitos)">>

MsgCaracteres == <<"Número contém caracteres inválidos">>

\* The rules of the table that match d
RegrasQueCasam(d) ==
    {padroes_bandeiras[k].bandeira :
        k \in {j \in 1..Len(padroes_bandeiras) : Match(padroes_bandeiras[j].padrao, d)}}

\* d begins with one of the issuer prefixes of the Elo rule
ComecaComPrefixoElo(d) ==
    \E k \in 1..Len(d) : Match(elo, SubSeq(d, 1, k))

Comeca5078(d) == Len(d) >= 4 /\ SubSeq(d, 1, 4) = Texto(<<5,0,7,8>>)

\* The brand formatar_numero works with, and the length its rule formats
BandeiraEmVigor ==
    IF bandeira_passada = None THEN identificar_bandeira(numero) ELSE bandeira_passada

ComprimentoDeFormato(b) ==
    IF b = "American Express" THEN 15 ELSE IF b = "Diners Club" THEN 14 ELSE 16

\* ---- C1

\* C1: in every verdict validar_cartao returns, on every return path,
\* valido_completo is true iff valido_luhn is true and bandeira is not None.
C1_CompletoDerivado ==
    chamada = "validar_cartao" =>
        (retorno.valido_completo <=> (retorno.valido_luhn /\ retorno.bandeira # None))

C1_Witness ==
    /\ chamada = "validar_cartao"
    /\ retorno.valido_completo
    /\ retorno.bandeira = "Mastercard"

\* ---- C2

\* C2: for a digit string of 13 to 19 digits validar_luhn returns true exactly
\* when the reference Luhn sum is divisible by 10; a string that ends with the
\* check digit a Luhn generator computes for the digits before it is accepted;
\* a one-digit string is accepted only when it is "0".
C2_LuhnReferencia ==
    (chamada = "validar_luhn" /\ SoTemDigitos(numero) /\ Len(numero) > 0) =>
        /\ Len(numero) \in 13..19 => (retorno <=> LuhnRef(numero))
        /\ ( /\ Len(numero) \in 13..19
             /\ numero[Len(numero)] =
                    48 + DigitoVerificadorRef(SubSeq(numero, 1, Len(numero) - 1)) )
           => retorno = TRUE
        /\ Len(numero) = 1 => (retorno <=> numero = <<48>>)

C2_Witness ==
    /\ chamada = "validar_luhn"
    /\ SoTemDigitos(numero)
    /\ Len(numero) = 19
    /\ retorno = TRUE
    /\ numero[Len(numero)] =
           48 + DigitoVerificadorRef(SubSeq(numero, 1, Len(numero) - 1))

\* ---- C3

\* C3 (as claimed): an input whose digits number fewer than 13 or more than 19,
\* the empty input and an input without any digit included, gets the
\* invalid-length message with valido_luhn false, bandeira None and
\* valido_completo false, never the invalid-characters message.
C3_ComprimentoInvalido ==
    (chamada = "validar_cartao" /\ Len(SoDigitos(numero)) \notin 13..19) =>
        /\ retorno.mensagem = MsgComprimento
        /\ retorno.mensagem # MsgCaracteres
        /\ retorno.valido_luhn = FALSE
        /\ retorno.bandeira = None
        /\ retorno.valido_completo = FALSE

\* ---- C4

\* C4: for an input of 13 to 19 digits the message of the verdict is the one of
\* four that the pair (valido_luhn, bandeira) selects, valido_luhn being the
\* Luhn verdict of the digits.
C4_MensagemPorPar ==
    (chamada = "validar_cartao" /\ Len(SoDigitos(numero)) \in 13..19) =>
        LET l == retorno.valido_luhn
            b == retorno.bandeira
            m == retorno.mensagem
        IN  /\ l = LuhnRef(SoDigitos(numero))
            /\ (l /\ b # None) => m = <<"Cartão válido - Bandeira: ", b>>
            /\ (l /\ b = None) =>
                 m = <<"Número válido pelo algoritmo Luhn, mas bandeira não identificada">>
            /\ (~l /\ b # None) =>
                 m = <<"Bandeira identificada (", b,
                       "), mas número inválido pelo algoritmo Luhn">>
            /\ (~l /\ b = None) => m = <<"Número inválido">>

C4_Witness ==
    /\ chamada = "validar_cartao"
    /\ Len(SoDigitos(numero)) \in 13..19
    /\ ~retorno.valido_luhn
    /\ retorno.bandeira = "Visa"

\* ---- C5

\* C5 (as claimed): a 16-digit string that begins with an Elo issuer prefix and
\* that Visa, Mastercard and American Express do not match is classified Elo,
\* by identificar_bandeira and by validar_cartao.
C5_EloDezesseis ==
    LET d == SoDigitos(numero)
        elo16 == /\ Len(d) = 16
                 /\ ComecaComPrefixoElo(d)
                 /\ ~Match(visa, d) /\ ~Match(mastercard, d) /\ ~Match(amex, d)
    IN  /\ (chamada = "identificar_bandeira" /\ elo16) => retorno = "Elo"
        /\ (chamada = "validar_cartao" /\ elo16) => retorno.bandeira = "Elo"

\* ---- C6

\* C6 (as claimed): Aura is returned for every string of 16 digits that starts
\* with 5078, and for no string of another length.
C6_AuraDezesseis ==
    chamada = "identificar_bandeira" =>
        LET d == SoDigitos(numero)
        IN  /\ (Comeca5078(d) /\ Len(d) = 16) => retorno = "Aura"
            /\ retorno = "Aura" => Len(d) = 16

\* C6 (amended): Aura is returned for every string of 19 digits that starts
\* with 5078, and for no string of another length.
C6_AuraDezenove ==
    chamada = "identificar_bandeira" =>
        LET d == SoDigitos(numero)
        IN  /\ (Comeca5078(d) /\ Len(d) = 19) => retorno = "Aura"
            /\ retorno = "Aura" => Len(d) = 19

C6_Witness ==
    /\ chamada = "identificar_bandeira"
    /\ Len(SoDigitos(numero)) = 19
    /\ retorno = "Aura"

\* ---- C7

\* C7 (as claimed): formatar_numero returns the digits unmodified whenever no
\* brand is recognized or the digit count differs from the length the brand's
\* rule formats.
C7_SemFormato ==
    chamada = "formatar_numero" =>
        LET d == SoDigitos(numero)
            b == BandeiraEmVigor
        IN  (b = None \/ Len(d) # ComprimentoDeFormato(b)) => retorno = d

\* C7 (amended): formatar_numero returns the digits unmodified whenever the
\* digit count differs from the length the rule in effect formats (15 for
\* American Express, 14 for Diners Club, 16 for any other brand and for no
\* brand); 16 digits of no recognized brand are grouped 4-4-4-4.
C7_SemFormatoPorComprimento ==
    chamada = "formatar_numero" =>
        LET d == SoDigitos(numero)
            b == BandeiraEmVigor
        IN  /\ Len(d) # ComprimentoDeFormato(b) => retorno = d
            /\ (b = None /\ Len(d) = 16) => retorno = Agrupar(d, <<45>>)

C7_Witness ==
    /\ chamada = "formatar_numero"
    /\ BandeiraEmVigor = None
    /\ Len(SoDigitos(numero)) = 16
    /\ Len(retorno) = 19

\* ---- C8

\* C8 (as claimed): validar_luhn returns false for every input that is empty
\* or holds a character that is not a digit.
C8_RejeitaNaoDigito ==
    (chamada = "validar_luhn" /\ (numero = <<>> \/ TemNaoDigito(numero))) =>
        retorno = FALSE

\* C8 (amended): validar_luhn returns false for every input without any digit
\* (the empty input included); characters that are not digits are dropped
\* before the checksum, so an input that holds some and at least one digit
\* gets the Luhn verdict of its digits.
C8_RejeitaSemDigito ==
    chamada = "validar_luhn" =>
        /\ SoDigitos(numero) = <<>> => retorno = FALSE
        /\ (TemNaoDigito(numero) /\ SoDigitos(numero) # <<>>) =>
               (retorno <=> LuhnRef(SoDigitos(numero)))

C8_Witness ==
    /\ chamada = "validar_luhn"
    /\ TemNaoDigito(numero)
    /\ retorno = TRUE

\* ---- C9

\* C9: in a digit string validar_luhn accepts, replacing the digit at any one
\* position by any other digit gives a string validar_luhn rejects.
C9_UmDigitoTrocado ==
    (chamada = "validar_luhn" /\ SoTemDigitos(numero) /\ retorno = TRUE) =>
        \A i \in 1..Len(numero) :
            \A c \in ASCIIDigitos \ {numero[i]} :
                ~validar_luhn([numero EXCEPT ![i] = c])

C9_Witness ==
    /\ chamada = "validar_luhn"
    /\ SoTemDigitos(numero)
    /\ Len(numero) = 16
    /\ retorno = TRUE

\* ---- C10

\* C10: at most one rule of the table matches a digit string, unless the Aura
\* rule matches, and then the Maestro rule matches too, no third one does, and
\* identificar_bandeira returns Aura; a string only one rule matches gets that
\* rule's brand; nothing Maestro matches is matched by Mastercard, Discover or
\* Elo.
C10_RegrasDisjuntas ==
    chamada = "identificar_bandeira" =>
        LET d == SoDigitos(numero)
            casam == RegrasQueCasam(d)
        IN  /\ Cardinality(casam) <= 1 \/ casam = {"aura", "maestro"}
            /\ Match(aura, d) => (casam = {"aura", "maestro"} /\ retorno = "Aura")
            /\ \A r \in casam : casam = {r} => retorno = nomes_bandeiras[r]
            /\ casam = {} => retorno = None
            /\ Match(maestro, d) =>
                 (~Match(mastercard, d) /\ ~Match(discover, d) /\ ~Match(elo, d))

C10_Witness ==
    /\ chamada = "identificar_bandeira"
    /\ RegrasQueCasam(SoDigitos(numero)) = {"aura", "maestro"}
    /\ retorno = "Aura"

====
